---- MODULE Spec2Model ----
(***************************************************************************)
(* State-machine model of the dynamic form builder                         *)
(* (src/alpha-portfolio/src/components/ui/forms/FormBuilder.tsx).          *)
(*                                                                         *)
(* The component is a React function component.  Its state is the props    *)
(* the parent passes (fields, initialValues, loading, resetOnSubmit,       *)
(* validate), the two useState cells (formValues, errors), the             *)
(* useTransition flag (isPending) and the async submit callbacks that have *)
(* been started and have not settled yet (inflight).  Every event is       *)
(* handled to completion on the single UI thread, so one action is one     *)
(* event together with the effects React runs for it.                      *)
(***************************************************************************)
EXTENDS Integers, Sequences, FiniteSets, TLC

VARIABLES
    fields,         \* prop: the schema, a sequence of field descriptors
    initialValues,  \* prop: the externally supplied initial values
    loading,        \* prop: the external loading flag
    resetOnSubmit,  \* prop
    validate,       \* prop: which validator is supplied ("none" = not supplied)
    formValues,     \* useState: field name -> value
    errors,         \* useState: field name -> error message
    isPending,      \* useTransition: a submit callback is in flight
    inflight,       \* the submit callbacks awaiting onSubmit, with what they captured
    ev,             \* the last event handled, with the calls it made
    pathname,       \* ActiveLink: what usePathname() returns
    href,           \* ActiveLink prop: the target path
    exact,          \* ActiveLink prop
    isActive        \* ActiveLink: the memoized result of the last render

\* the state of the form builder and the state of one active link; the two
\* components do not interact
formVars == <<fields, initialValues, loading, resetOnSubmit, validate,
              formValues, errors, isPending, inflight, ev>>
linkVars == <<pathname, href, exact, isActive>>
vars == <<formVars, linkVars>>

(***************************************************************************)
(* JavaScript values.  One record shape for every value so that values of  *)
(* different JavaScript types can be compared.                             *)
(***************************************************************************)
Str(s)  == [kind |-> "string",    s |-> s,  n |-> 0, b |-> FALSE, l |-> <<>>]
Num(n)  == [kind |-> "number",    s |-> "", n |-> n, b |-> FALSE, l |-> <<>>]
Bool(b) == [kind |-> "boolean",   s |-> "", n |-> 0, b |-> b,     l |-> <<>>]
Arr(l)  == [kind |-> "array",     s |-> "", n |-> 0, b |-> FALSE, l |-> l]
Undef   == [kind |-> "undefined", s |-> "", n |-> 0, b |-> FALSE, l |-> <<>>]

(* JavaScript objects used as maps: functions on a finite set of keys.     *)
EmptyMap == [k \in {} |-> Undef]
NoErrors == [k \in {} |-> ""]
Keys(m) == DOMAIN m
\* m[k], undefined when the key is absent
Get(m, k) == IF k \in DOMAIN m THEN m[k] ELSE Undef
\* { ...a, ...b }
Spread(a, b) == [k \in (DOMAIN a) \cup (DOMAIN b) |-> IF k \in DOMAIN b THEN b[k] ELSE a[k]]
\* { ...a, [k]: v }
Put(a, k, v) == [x \in (DOMAIN a) \cup {k} |-> IF x = k THEN v ELSE a[x]]

(***************************************************************************)
(* Field descriptors (src/.../types).  visibleIf is either absent or the   *)
(* caller-supplied predicate  values => values[dep] === true.              *)
(***************************************************************************)
NoPred == [has |-> FALSE, dep |-> ""]
When(dep) == [has |-> TRUE, dep |-> dep]
Field(type, name, visibleIf, disabled) ==
    [type |-> type, name |-> name, visibleIf |-> visibleIf, disabled |-> disabled]

Range(seq) == {seq[i] : i \in DOMAIN seq}
FieldNames(fs) == {f.name : f \in Range(fs)}

\* f.visibleIf(values)
VisibleIf(f, values) == Get(values, f.visibleIf.dep) = Bool(TRUE)


(***************************************************************************)
(* Pure helpers of the component.                                          *)
(***************************************************************************)
\* a default table that starts numbers at zero
defaultForZeroNumber(field) ==
    CASE field.type = "checkbox"    -> Bool(FALSE)
      [] field.type = "multiselect" -> Arr(<<>>)
      [] field.type = "number"      -> Num(0)
      [] OTHER                      -> Str("")

\* defaultFor(field): the default value of each field variant
defaultFor(field) ==
    CASE field.type = "checkbox"    -> Bool(FALSE)
      [] field.type = "multiselect" -> Arr(<<>>)
      [] field.type = "select"      -> Str("")
      [] field.type = "number"      -> Str("")
      [] OTHER                      -> Str("")

\* for (const f of fields) acc[f.name] = (f.name in from) ? from[f.name] : defaultFor(f)
RECURSIVE SeedFrom(_, _, _, _)
SeedFrom(fs, from, i, acc) ==
    IF i > Len(fs) THEN acc
    ELSE SeedFrom(fs, from, i + 1,
                  Put(acc, fs[i].name,
                      IF fs[i].name \in Keys(from) THEN from[fs[i].name]
                      ELSE defaultFor(fs[i])))

\* useMemo initialComputed: the first value of the formValues cell
initialComputed(fs, iv) == SeedFrom(fs, iv, 1, EmptyMap)

\* an effect that seeds the schema's fields without dropping the removed ones
FieldsEffectKeepsRemoved(fs, prev) == Spread(prev, SeedFrom(fs, prev, 1, EmptyMap))

\* effect on [fields]: keep the values of the fields of the schema, default the rest
FieldsEffect(fs, prev) == SeedFrom(fs, prev, 1, EmptyMap)

\* an effect that replaces the state by the initial values
InitialValuesEffectReplaces(iv, prev) ==
    IF Cardinality(Keys(iv)) # 0 THEN iv ELSE prev

\* effect on [initialValues]: merge them over the state when there are any
InitialValuesEffect(iv, prev) ==
    IF Cardinality(Keys(iv)) # 0 THEN Spread(prev, iv) ELSE prev

\* doReset, closed over the schema `fs` of the render that created it
doReset(fs) == SeedFrom(fs, EmptyMap, 1, EmptyMap)

\* a render that shows every field
isVisibleAlways(f, values) == TRUE

\* the rendering's test: field.visibleIf ? field.visibleIf(formValues) : true
isVisible(f, values) == IF f.visibleIf.has THEN VisibleIf(f, values) ELSE TRUE

\* handleSubmit's visibility filter
RECURSIVE VisibleFrom(_, _, _, _)
VisibleFrom(fs, values, i, acc) ==
    IF i > Len(fs) THEN acc
    ELSE VisibleFrom(fs, values, i + 1,
                     IF ~fs[i].visibleIf.has \/ VisibleIf(fs[i], values)
                     THEN Put(acc, fs[i].name, Get(values, fs[i].name))
                     ELSE acc)

\* a payload of every field of the schema, hidden or not
visibleValuesUnfiltered(fs, values) == [k \in FieldNames(fs) |-> Get(values, k)]

\* a payload that starts from the whole value map
visibleValuesOverState(fs, values) == Spread(values, VisibleFrom(fs, values, 1, EmptyMap))

visibleValues(fs, values) == VisibleFrom(fs, values, 1, EmptyMap)

(***************************************************************************)
(* The caller's validator.  "required" reports every submitted field whose *)
(* value is the empty string and returns null when there is none.          *)
(***************************************************************************)
Validators == {"none", "required"}
Null == [null |-> TRUE, map |-> NoErrors]
ErrorMap(m) == [null |-> FALSE, map |-> m]

Validate(v, data) ==
    LET bad == {k \in Keys(data) : data[k] = Str("")}
    IN  IF v = "required" /\ bad # {} THEN ErrorMap([k \in bad |-> "Required"]) ELSE Null

\* validate(visibleValues) || {}
nextErrors(v, data) == IF Validate(v, data).null THEN NoErrors ELSE Validate(v, data).map

\* a submit that adds the new errors to the old ones
setErrorsOnSubmitMerged(prev, next) == Spread(prev, next)

\* setErrors(nextErrors)
setErrorsOnSubmit(prev, next) == next

\* a submit that goes on whatever the validator said
abortSubmitNever(next) == FALSE

\* if (Object.keys(nextErrors).length > 0) return;
abortSubmit(next) == Cardinality(Keys(next)) > 0

\* a change that clears every error
clearErrorAll(prev, name) == [k \in Keys(prev) \cup {name} |-> ""]

\* setErrors(prev => ({ ...prev, [name]: '' }))
clearError(prev, name) == Put(prev, name, "")

\* a submit button that stays enabled during a submission
submitDisabledLoadingOnly == loading

\* disabled={loading || isPending} of the submit button
submitDisabled == loading \/ isPending

\* inputs that stay editable during a submission
fieldDisabledNotPending(f) == f.disabled \/ loading

\* disabled: field.disabled || loading || isPending of every input
fieldDisabled(f) == f.disabled \/ loading \/ isPending


(***************************************************************************)
(* The inputs the model draws from.                                        *)
(***************************************************************************)
\* the form of the specification's scenarios: plan is shown when subscribe is checked
SignupSchema ==
    << Field("text", "name", NoPred, FALSE),
       Field("checkbox", "subscribe", NoPred, FALSE),
       Field("select", "plan", When("subscribe"), FALSE) >>

\* a later step of the same form: no subscription, an age is asked for
ProfileSchema ==
    << Field("text", "name", NoPred, FALSE),
       Field("number", "age", NoPred, FALSE) >>

\* a form that is mounted and then replaced: the account is shown read-only
AccountSchema ==
    << Field("email", "email", NoPred, TRUE),
       Field("password", "password", NoPred, TRUE),
       Field("textarea", "bio", NoPred, TRUE),
       Field("multiselect", "tags", NoPred, FALSE) >>

\* schemas the parent can switch to, and schemas it can mount the form with
NextSchemas == {SignupSchema, ProfileSchema}
Schemas == NextSchemas \cup {AccountSchema}

InitialValueSets ==
    { EmptyMap,
      [k \in {"plan"} |-> Str("pro")],
      [k \in {"name", "subscribe"} |-> IF k = "name" THEN Str("Ada") ELSE Bool(TRUE)] }

\* what the user can type or pick in the control rendered for a field
RawStrings(type) ==
    CASE type = "number" -> {"", "0", "5"}
      [] type = "select" -> {"", "pro"}
      [] OTHER           -> {"", "Ada"}

\* the number that is not a number
NaN == [kind |-> "number", s |-> "NaN", n |-> 0, b |-> FALSE, l |-> <<>>]

\* HTMLInputElement.valueAsNumber of the raw strings above: NaN when the input
\* holds no number
valueAsNumber(raw) ==
    CASE raw = "5" -> Num(5)
      [] raw = "0" -> Num(0)
      [] OTHER     -> NaN

\* the (name, value) pairs a custom component can report
DirectNames == {"plan"}
DirectValues == {Str("pro")}

\* at most this many submit callbacks are ever awaited at once
MaxInflight == 2

(***************************************************************************)
(* The DOM element rendered for a field, as the change handler sees it.    *)
(***************************************************************************)
Target(el, type, multiple, name, value, checked, selected) ==
    [el |-> el, type |-> type, multiple |-> multiple, name |-> name,
     value |-> value, checked |-> checked, selected |-> selected]

\* the elements the render produces for field f with every input the user can give
Targets(f) ==
    CASE f.type = "textarea" ->
           {Target("textarea", "textarea", FALSE, f.name, r, FALSE, <<>>) : r \in RawStrings(f.type)}
      [] f.type = "checkbox" ->
           {Target("input", "checkbox", FALSE, f.name, "on", c, <<>>) : c \in BOOLEAN}
      [] f.type = "select" ->
           {Target("select", "select-one", FALSE, f.name, r, FALSE, <<r>>) : r \in RawStrings(f.type)}
      [] f.type = "multiselect" ->
           {Target("select", "select-multiple", TRUE, f.name, "", FALSE, <<>>),
            Target("select", "select-multiple", TRUE, f.name, "x", FALSE, <<"x">>)}
      [] f.type = "number" ->
           {Target("input", "number", FALSE, f.name, r, FALSE, <<>>) : r \in RawStrings(f.type)}
      [] OTHER ->
           {Target("input", f.type, FALSE, f.name, r, FALSE, <<>>) : r \in RawStrings(f.type)}

\* a change handler that always takes the number of a numeric input
targetValueAlwaysNumber(t) ==
    IF t.el = "input" /\ t.type = "checkbox" THEN Bool(t.checked)
    ELSE IF t.el = "input" /\ t.type = "number" THEN valueAsNumber(t.value)
    ELSE IF t.el = "select" /\ t.multiple THEN Arr(t.selected)
    ELSE Str(t.value)

\* the value handleFieldChange reads from a native change event
targetValue(t) ==
    IF t.el = "input" /\ t.type = "checkbox" THEN Bool(t.checked)
    ELSE IF t.el = "input" /\ t.type = "number"
         THEN (IF t.value = "" THEN Str("") ELSE valueAsNumber(t.value))
    ELSE IF t.el = "select" /\ t.multiple THEN Arr(t.selected)
    ELSE Str(t.value)

(***************************************************************************)
(* The last event, and the calls it made to the caller's functions.        *)
(***************************************************************************)
Event(op, name, raw, payload, validated, result, invoked, reset, stale) ==
    [op |-> op,                \* which event
     name |-> name,            \* the field a change event is about
     raw |-> raw,              \* target.value of a native change event
     payload |-> payload,      \* the argument of validate and of onSubmit
     validated |-> validated,  \* validate was called
     result |-> result,        \* what validate returned
     invoked |-> invoked,      \* onSubmit was called
     reset |-> reset,          \* doReset was called
     stale |-> stale]          \* fields that showed an error when the event came

Plain(op) == Event(op, "", "", EmptyMap, FALSE, Null, FALSE, FALSE, {})

Erroneous(errs) == {k \in Keys(errs) : errs[k] # ""}


(***************************************************************************)
(* The active link (src/.../nav/ActiveLink.tsx).  A path is a sequence of  *)
(* characters; usePathname() returns a path or null.                       *)
(***************************************************************************)
PathChars == {"/", "a"}
MaxPathLen == 3

RECURSIVE PathsOfLen(_)
PathsOfLen(n) ==
    IF n = 0 THEN {<<>>}
    ELSE {Append(p, c) : p \in PathsOfLen(n - 1), c \in PathChars}

Paths == UNION {PathsOfLen(n) : n \in 0..MaxPathLen}

NoPath == [null |-> TRUE, s |-> <<>>]
Known(p) == [null |-> FALSE, s |-> p]
Pathnames == {NoPath} \cup {Known(p) : p \in Paths}

\* !pathname: null and the empty string are both falsy
falsy(pn) == pn.null \/ Len(pn.s) = 0

\* String.prototype.startsWith
startsWith(str, prefix) ==
    /\ Len(prefix) <= Len(str)
    /\ SubSeq(str, 1, Len(prefix)) = prefix

\* the useMemo of ActiveLink
computeIsActive(pn, h, e) ==
    IF falsy(pn) THEN FALSE
    ELSE IF e THEN pn.s = h ELSE startsWith(pn.s, h)

\* the Home link of the navigation bar on the home page
LinkIdle ==
    /\ pathname = Known(<<"/">>)
    /\ href = <<"/">>
    /\ exact = TRUE
    /\ isActive = computeIsActive(pathname, href, exact)

(***************************************************************************)
(* Mount: useState(initialComputed), then the two effects in source order. *)
(***************************************************************************)
MountValues(fs, iv) == InitialValuesEffect(iv, FieldsEffect(fs, initialComputed(fs, iv)))

Init ==
    /\ fields \in Schemas
    /\ loading \in BOOLEAN
    /\ resetOnSubmit \in BOOLEAN
    /\ validate \in Validators
    /\ initialValues \in InitialValueSets
    /\ formValues = MountValues(fields, initialValues)
    /\ ev = Plain("init")
    /\ errors = NoErrors
    /\ isPending = FALSE
    /\ inflight = <<>>
    /\ LinkIdle

(***************************************************************************)
(* The parent re-renders the form with other props.                        *)
(***************************************************************************)
\* a new `fields` array: the effect on [fields] runs
SchemaChange(fs) ==
    /\ fields' = fs
    /\ formValues' = FieldsEffect(fs, formValues)
    /\ ev' = Plain("schema")
    /\ UNCHANGED <<linkVars, initialValues, loading, resetOnSubmit, validate, errors, isPending, inflight>>

\* a new `initialValues` object: the effect on [initialValues] runs
InitialValuesChange(iv) ==
    /\ initialValues' = iv
    /\ formValues' = InitialValuesEffect(iv, formValues)
    /\ ev' = Plain("initialValues")
    /\ UNCHANGED <<linkVars, fields, loading, resetOnSubmit, validate, errors, isPending, inflight>>

LoadingChange ==
    /\ loading' = ~loading
    /\ ev' = Plain("loading")
    /\ UNCHANGED <<linkVars, fields, initialValues, resetOnSubmit, validate, formValues, errors,
                   isPending, inflight>>

(***************************************************************************)
(* handleFieldChange                                                       *)
(***************************************************************************)
\* a change event of the control rendered for field f
NativeChange(f, t) ==
    /\ isVisible(f, formValues)
    /\ ~fieldDisabled(f)
    /\ formValues' = Put(formValues, t.name, targetValue(t))
    /\ errors' = clearError(errors, t.name)
    /\ ev' = [Plain("native") EXCEPT !.name = t.name, !.raw = t.value]
    /\ UNCHANGED <<linkVars, fields, initialValues, loading, resetOnSubmit, validate, isPending, inflight>>

\* onChange(name, value) of a custom component
DirectChange(name, value) ==
    /\ formValues' = Put(formValues, name, value)
    /\ errors' = clearError(errors, name)
    /\ ev' = [Plain("direct") EXCEPT !.name = name]
    /\ UNCHANGED <<linkVars, fields, initialValues, loading, resetOnSubmit, validate, isPending, inflight>>

(***************************************************************************)
(* handleSubmit: the submit event of the form, which the browser fires     *)
(* only while the submit button is enabled.                                *)
(***************************************************************************)
\* what the async callback keeps of the render that started it: resetOnSubmit
\* and doReset, which useCallback closed over that render's fields
Captured == [fields |-> fields, resetOnSubmit |-> resetOnSubmit]

\* a submit that drops the values of the hidden fields from the state
handleSubmitPrunesHidden ==
    LET payload == visibleValues(fields, formValues)
        checked == validate # "none"
        next    == nextErrors(validate, payload)
        abort   == checked /\ abortSubmit(next)
    IN  /\ ~submitDisabled
        /\ Len(inflight) < MaxInflight
        /\ formValues' = payload
        /\ errors' = IF checked THEN setErrorsOnSubmit(errors, next) ELSE errors
        /\ inflight' = IF abort THEN inflight ELSE Append(inflight, Captured)
        /\ isPending' = IF abort THEN isPending ELSE TRUE
        /\ ev' = Event("submit", "", "", payload, checked,
                       IF checked THEN Validate(validate, payload) ELSE Null,
                       ~abort, FALSE,
                       IF checked THEN Erroneous(errors) ELSE {})
        /\ UNCHANGED <<linkVars, fields, initialValues, loading, resetOnSubmit, validate>>

handleSubmit ==
    LET payload == visibleValues(fields, formValues)
        checked == validate # "none"
        next    == nextErrors(validate, payload)
        abort   == checked /\ abortSubmit(next)
    IN  /\ ~submitDisabled
        /\ Len(inflight) < MaxInflight
        /\ errors' = IF checked THEN setErrorsOnSubmit(errors, next) ELSE errors
        /\ inflight' = IF abort THEN inflight ELSE Append(inflight, Captured)
        /\ isPending' = IF abort THEN isPending ELSE TRUE
        /\ ev' = Event("submit", "", "", payload, checked,
                       IF checked THEN Validate(validate, payload) ELSE Null,
                       ~abort, FALSE,
                       IF checked THEN Erroneous(errors) ELSE {})
        /\ UNCHANGED <<linkVars, fields, initialValues, loading, resetOnSubmit, validate, formValues>>

\* inflight without its i-th element
Without(seq, i) == SubSeq(seq, 1, i - 1) \o SubSeq(seq, i + 1, Len(seq))

\* onSubmit resolves: the callback resumes after the await
HandlerDone(i) ==
    LET c == inflight[i]
    IN  /\ inflight' = Without(inflight, i)
        /\ isPending' = (Len(inflight) > 1)
        /\ formValues' = IF c.resetOnSubmit THEN doReset(c.fields) ELSE formValues
        /\ errors' = IF c.resetOnSubmit THEN NoErrors ELSE errors
        /\ ev' = [Plain("done") EXCEPT !.reset = c.resetOnSubmit]
        /\ UNCHANGED <<linkVars, fields, initialValues, loading, resetOnSubmit, validate>>

\* a failure that leaves the transition pending
HandlerFailStaysPending(i) ==
    /\ inflight' = Without(inflight, i)
    /\ ev' = Plain("failed")
    /\ UNCHANGED <<linkVars, fields, initialValues, loading, resetOnSubmit, validate,
                   formValues, errors, isPending>>

\* a failure after which the form is reset all the same
HandlerFailResets(i) ==
    /\ inflight' = Without(inflight, i)
    /\ isPending' = (Len(inflight) > 1)
    /\ formValues' = IF inflight[i].resetOnSubmit THEN doReset(inflight[i].fields) ELSE formValues
    /\ errors' = IF inflight[i].resetOnSubmit THEN NoErrors ELSE errors
    /\ ev' = Plain("failed")
    /\ UNCHANGED <<linkVars, fields, initialValues, loading, resetOnSubmit, validate>>

\* onSubmit rejects or throws: the callback ends at the await, the builder
\* catches nothing and the transition is over
HandlerFail(i) ==
    /\ inflight' = Without(inflight, i)
    /\ isPending' = (Len(inflight) > 1)
    /\ ev' = Plain("failed")
    /\ UNCHANGED <<linkVars, fields, initialValues, loading, resetOnSubmit, validate, formValues, errors>>

Next ==
    \/ \E fs \in NextSchemas : SchemaChange(fs)
    \/ \E iv \in InitialValueSets : InitialValuesChange(iv)
    \/ LoadingChange
    \/ \E i \in DOMAIN fields : \E t \in Targets(fields[i]) : NativeChange(fields[i], t)
    \/ \E name \in DirectNames : \E value \in DirectValues : DirectChange(name, value)
    \/ handleSubmit
    \/ \E i \in DOMAIN inflight : HandlerDone(i)
    \/ \E i \in DOMAIN inflight : HandlerFail(i)

Spec == Init /\ [][Next]_vars

\* the caller's handler settles: every promise it returns resolves or rejects
Settle == \E i \in DOMAIN inflight : HandlerDone(i) \/ HandlerFail(i)

LiveSpec == Init /\ [][Next]_vars /\ WF_vars(Settle)

(***************************************************************************)
(* The active link on its own, beside a form that is left alone.           *)
(***************************************************************************)
FormIdle ==
    /\ fields = SignupSchema
    /\ initialValues = EmptyMap
    /\ loading = FALSE
    /\ resetOnSubmit = FALSE
    /\ validate = "none"
    /\ formValues = MountValues(fields, initialValues)
    /\ errors = NoErrors
    /\ isPending = FALSE
    /\ inflight = <<>>
    /\ ev = Plain("init")

LinkInit ==
    /\ FormIdle
    /\ pathname \in Pathnames
    /\ href \in Paths
    /\ exact \in BOOLEAN
    /\ isActive = computeIsActive(pathname, href, exact)

\* the router reports another location: the memo is recomputed
Navigate(pn) ==
    /\ pathname' = pn
    /\ isActive' = computeIsActive(pn, href, exact)
    /\ UNCHANGED <<formVars, href, exact>>

\* the parent renders the link with other props: the memo is recomputed
LinkProps(h, e) ==
    /\ href' = h
    /\ exact' = e
    /\ isActive' = computeIsActive(pathname, h, e)
    /\ UNCHANGED <<formVars, pathname>>

LinkNext ==
    \/ \E pn \in Pathnames : Navigate(pn)
    \/ \E h \in Paths : \E e \in BOOLEAN : LinkProps(h, e)

LinkSpec == LinkInit /\ [][LinkNext]_vars


(***************************************************************************)
(* Properties.                                                             *)
(***************************************************************************)
\* the default-value table of the specification (section 4.2)
DocumentedDefault(type) ==
    IF type = "checkbox" THEN Bool(FALSE)
    ELSE IF type = "multiselect" THEN Arr(<<>>)
    ELSE Str("")

\* the last event was a submit for which the validator reported errors
SubmitRejected ==
    /\ ev.op = "submit"
    /\ ev.validated
    /\ ~ev.result.null
    /\ Keys(ev.result.map) # {}

\* C1: a submit attempt whose validator returns a non-empty error map does not
\* invoke the submission handler and does not enter the submitting state.
C1_ErrorsBlockHandler ==
    SubmitRejected => (~ev.invoked /\ inflight = <<>> /\ ~isPending)

C1_Witness ==
    /\ SubmitRejected
    /\ "name" \in Keys(ev.result.map)
    /\ inflight = <<>>

\* the visibility of field f, spelled out on a value map
ShownOn(f, values) ==
    \/ ~f.visibleIf.has
    \/ (f.visibleIf.dep \in Keys(values) /\ values[f.visibleIf.dep] = Bool(TRUE))

\* C2: on every submit the payload holds a field's value exactly when the field
\* has no visibility predicate or its predicate is true on the full value map;
\* a hidden field is absent whatever value it stores.
C2_PayloadIsVisibleSubset ==
    ev.op = "submit" =>
        \A i \in DOMAIN fields :
            /\ (fields[i].name \in Keys(ev.payload)) <=> ShownOn(fields[i], formValues)
            /\ fields[i].name \in Keys(ev.payload)
                  => ev.payload[fields[i].name] = Get(formValues, fields[i].name)

C2_Witness ==
    /\ ev.op = "submit"
    /\ ev.invoked
    /\ fields = SignupSchema
    /\ Get(formValues, "plan") = Str("pro")
    /\ Keys(ev.payload) = {"name", "subscribe"}

\* C3: at most one invocation of the submission handler is in flight at any
\* time: while one is in flight the submit control is disabled, so no second
\* submit reaches the handler.
C3_OneHandlerInFlight ==
    /\ Len(inflight) <= 1
    /\ (inflight # <<>> => submitDisabled)

C3_Witness ==
    /\ Len(inflight) = 1
    /\ submitDisabled
    /\ ~loading
    /\ ev.op = "direct"

\* C4: every field of the current schema has an entry in the value map.
C4_SchemaFieldsHaveValues ==
    \A i \in DOMAIN fields : fields[i].name \in Keys(formValues)


\* C5 as stated: after a schema change a field of both schemas keeps its value, a
\* field of the old schema only has no entry, and a field of the new schema only
\* holds its type default.
C5_AsStated ==
    [][ev'.op = "schema" =>
        /\ \A i \in DOMAIN fields' :
              IF fields'[i].name \in FieldNames(fields)
              THEN /\ fields'[i].name \in Keys(formValues')
                   /\ formValues'[fields'[i].name] = Get(formValues, fields'[i].name)
              ELSE /\ fields'[i].name \in Keys(formValues')
                   /\ formValues'[fields'[i].name] = DocumentedDefault(fields'[i].type)
        /\ \A n \in FieldNames(fields) \ FieldNames(fields') : n \notin Keys(formValues')
       ]_vars

\* C5, amended: after a schema change the value map has exactly the names of the
\* new schema; a field whose name had an entry in the value map before the change
\* keeps that entry's value, whether or not the old schema had the field, and a
\* field whose name had no entry holds its type default.
C5_SchemaChangeKeepsEntries ==
    [][ev'.op = "schema" =>
        /\ Keys(formValues') = FieldNames(fields')
        /\ \A i \in DOMAIN fields' :
              formValues'[fields'[i].name] =
                  IF fields'[i].name \in Keys(formValues)
                  THEN formValues[fields'[i].name]
                  ELSE DocumentedDefault(fields'[i].type)
       ]_vars

C5_Witness ==
    /\ ev.op = "schema"
    /\ fields = ProfileSchema
    /\ Keys(formValues) = {"name", "age"}
    /\ formValues["name"] = Str("Ada")
    /\ formValues["age"] = Str("")

\* C6: when the initial values change they are merged over the value map: a name
\* in the new initial values takes the supplied value, and every other name keeps
\* what it had, entry or no entry.
C6_InitialValuesMerge ==
    [][ev'.op = "initialValues" =>
        /\ \A n \in Keys(initialValues') :
              n \in Keys(formValues') /\ formValues'[n] = initialValues'[n]
        /\ \A n \in (Keys(formValues) \cup Keys(formValues')) \ Keys(initialValues') :
              /\ n \in Keys(formValues)
              /\ n \in Keys(formValues')
              /\ formValues'[n] = formValues[n]
       ]_vars

C6_Witness ==
    /\ ev.op = "initialValues"
    /\ fields = ProfileSchema
    /\ initialValues = [k \in {"plan"} |-> Str("pro")]
    /\ Get(formValues, "plan") = Str("pro")
    /\ Get(formValues, "name") = Str("Ada")
    /\ Get(formValues, "age") = Num(5)

\* C7: a field change on n, native or direct, clears the error of n and leaves
\* the error of every other name as it was.
C7_ChangeClearsOwnErrorOnly ==
    [][ev'.op \in {"native", "direct"} =>
        /\ ev'.name \notin Erroneous(errors')
        /\ \A n \in (Keys(errors) \cup Keys(errors')) \ {ev'.name} :
              /\ n \in Keys(errors)
              /\ n \in Keys(errors')
              /\ errors'[n] = errors[n]
       ]_vars

C7_Witness ==
    /\ ev.op \in {"native", "direct"}
    /\ ev.name = "plan"
    /\ "plan" \notin Erroneous(errors)
    /\ "name" \in Erroneous(errors)

\* C8: with reset-on-submit, once the handler has completed every field of the
\* schema current at that moment holds its type default and no error is left.
C8_ResetRestoresDefaults ==
    (ev.op = "done" /\ resetOnSubmit) =>
        /\ \A i \in DOMAIN fields :
              /\ fields[i].name \in Keys(formValues)
              /\ formValues[fields[i].name] = DocumentedDefault(fields[i].type)
        /\ Erroneous(errors) = {}

\* C9: after initialization each field holds the supplied initial value when one
\* is supplied for its name, and its variant's default otherwise.
C9_InitialSeed ==
    ev.op = "init" =>
        \A i \in DOMAIN fields :
            /\ fields[i].name \in Keys(formValues)
            /\ formValues[fields[i].name] =
                  IF fields[i].name \in Keys(initialValues)
                  THEN initialValues[fields[i].name]
                  ELSE DocumentedDefault(fields[i].type)

C9_Witness ==
    /\ ev.op = "init"
    /\ fields = SignupSchema
    /\ initialValues = [k \in {"plan"} |-> Str("pro")]
    /\ formValues["plan"] = Str("pro")
    /\ formValues["subscribe"] = Bool(FALSE)
    /\ formValues["name"] = Str("")

\* C10: after a submit attempt with a validator the error map is exactly what
\* the validator returned for the payload, the empty map when it returned none;
\* no earlier error survives.
C10_ErrorsReplacedOnSubmit ==
    (ev.op = "submit" /\ ev.validated) =>
        errors = (IF ev.result.null THEN NoErrors ELSE ev.result.map)

C10_Witness ==
    /\ ev.op = "submit"
    /\ ev.validated
    /\ fields = SignupSchema
    /\ "plan" \in ev.stale
    /\ "plan" \notin Keys(ev.payload)
    /\ "plan" \notin Keys(errors)


\* t is the beginning of p
IsPrefixOf(t, p) == \E k \in 0..Len(p) : t = [i \in 1..k |-> p[i]]

\* C11: with exact = true the link is active exactly when the current path
\* equals the target path, for every current path, the empty one included.
C11_ExactIffEqual ==
    (exact /\ ~pathname.null) => (isActive <=> (pathname.s = href))

\* C12: with exact = false the link is active exactly when the current path
\* starts with the target path, for every current path, the empty one included.
C12_PrefixIffStartsWith ==
    (~exact /\ ~pathname.null) => (isActive <=> IsPrefixOf(href, pathname.s))


\* a submission is in flight: onSubmit was called and has not settled
Submitting == inflight # <<>>

\* C13: the submit control is disabled exactly when the loading flag is set or
\* a submission is in flight, and during a submission every rendered field is
\* disabled too.
C13_DisabledWhileSubmitting ==
    /\ submitDisabled <=> (loading \/ Submitting)
    /\ Submitting =>
          \A i \in DOMAIN fields :
              isVisible(fields[i], formValues) => fieldDisabled(fields[i])

C13_Witness ==
    /\ Submitting
    /\ ~loading
    /\ submitDisabled
    /\ \E i \in DOMAIN fields :
          /\ isVisible(fields[i], formValues)
          /\ ~fields[i].disabled
          /\ fieldDisabled(fields[i])

\* C14: provided the handler settles, a form that is submitting returns to
\* idle, and nothing but the handler's completion takes it out of submitting.
C14_SubmittingEnds ==
    /\ isPending ~> ~isPending
    /\ [][(isPending /\ ~isPending') => ev'.op \in {"done", "failed"}]_vars

C14_Witness ==
    /\ ev.op = "failed"
    /\ ~isPending
    /\ inflight = <<>>

\* the event left the Reset transition out
NoReset(e) ==
    \/ e.op = "failed"
    \/ e.op = "done" /\ ~resetOnSubmit
    \/ e.op = "submit" /\ ~e.invoked

\* C15: Reset is performed only when a handler completes successfully with
\* reset-on-submit; when the handler fails, when reset-on-submit is off and when
\* validation aborts the attempt, the value map is left as it was.
C15_ResetOnlyAfterSuccess ==
    [][/\ NoReset(ev') => (formValues' = formValues /\ ~ev'.reset)
       /\ ev'.reset => (ev'.op = "done" /\ resetOnSubmit)
      ]_vars

C15_Witness ==
    /\ ev.op = "failed"
    /\ resetOnSubmit
    /\ fields = SignupSchema
    /\ Get(formValues, "name") = Str("Ada")


\* the number a numeric input shows
NumberTyped(raw) == IF raw = "5" THEN Num(5) ELSE Num(0)

\* the fields of the schema that are numeric inputs
NumberFields(fs) == {fs[i].name : i \in {j \in DOMAIN fs : fs[j].type = "number"}}

\* C16: a native change of a numeric input stores the empty string when the
\* input is empty and the number otherwise, never 0 or NaN for a cleared input,
\* and a submit puts the stored empty string in the payload.
C16_ClearedNumberStaysEmpty ==
    [][/\ (ev'.op = "native" /\ ev'.name \in NumberFields(fields)) =>
             /\ ev'.name \in Keys(formValues')
             /\ formValues'[ev'.name] =
                   IF ev'.raw = "" THEN Str("") ELSE NumberTyped(ev'.raw)
       /\ ev'.op = "submit" =>
             \A n \in NumberFields(fields) \cap Keys(ev'.payload) :
                 Get(formValues, n) = Str("") => ev'.payload[n] = Str("")
      ]_vars

C16_Witness ==
    /\ ev.op = "submit"
    /\ ev.invoked
    /\ fields = ProfileSchema
    /\ validate = "none"
    /\ "age" \in Keys(errors)
    /\ ev.payload["age"] = Str("")


\* C17: the payload given to the submission handler has no key but names of
\* fields of the schema at submit time, whatever other keys the value map holds.
C17_PayloadKeysInSchema ==
    (ev.op = "submit" /\ ev.invoked) => Keys(ev.payload) \subseteq FieldNames(fields)

C17_Witness ==
    /\ ev.op = "submit"
    /\ ev.invoked
    /\ fields = ProfileSchema
    /\ Get(formValues, "plan") = Str("pro")
    /\ Keys(ev.payload) = {"name", "age"}

\* C18: at a submit a field's value is in the payload exactly when the field is
\* rendered in the state the submit is issued from.
C18_RenderedIffSubmitted ==
    [][ev'.op = "submit" =>
          \A i \in DOMAIN fields :
              (fields[i].name \in Keys(ev'.payload)) <=> isVisible(fields[i], formValues)
      ]_vars

C18_Witness ==
    /\ ev.op = "submit"
    /\ fields = SignupSchema
    /\ ~isVisible(fields[3], formValues)
    /\ "plan" \in Keys(formValues)
    /\ "plan" \notin Keys(ev.payload)

\* C19: a submit attempt, aborted or not, leaves the whole value map as it was.
C19_SubmitKeepsValues ==
    [][ev'.op = "submit" => formValues' = formValues]_vars

C19_Witness ==
    /\ ev.op = "submit"
    /\ ev.validated
    /\ ~ev.invoked
    /\ fields = SignupSchema
    /\ Get(formValues, "plan") = Str("pro")
    /\ "plan" \notin Keys(ev.payload)

====
